---- MODULE Spec2Model ----
(***************************************************************************)
(* goforecast: the `lookup` command of src/goforecast.go as a state        *)
(* machine.  One invocation of the command is one run of the program       *)
(* counter pc through the stages of the lookup Action; the state file      *)
(* $HOME/.goforecast outlives the invocation.                              *)
(*                                                                         *)
(* Strings are sequences of one-character strings, so that escaping and    *)
(* JSON quoting are computed and not assumed to be the identity.           *)
(***************************************************************************)
EXTENDS Integers, Sequences, FiniteSets, TLC

(* ------------------------------ bounds -------------------------------- *)

\* Longest address given on the command line.
MaxAddrLen == 2
\* Longest API key, in the environment or in the state file.
MaxKeyLen == 1

\* Bytes an address is made of: an unreserved byte and a space.
AddrBytes == {"9", " "}
\* Bytes a key is made of: an ASCII byte and a byte that is no valid UTF-8.
KeyBytes == {"k", "xFF"}
\* What a JSON string in the state file is made of: the raw bytes above,
\* the rune U+FFFD written raw, and the six-character escape of U+FFFD.
JSONTokens == {"k", "xFF", "uFFFD", "esc_ufffd"}

SeqsUpTo(S, n) == UNION {[1..m -> S] : m \in 0..n}

RECURSIVE Concat(_)
Concat(ss) == IF ss = <<>> THEN <<>> ELSE Head(ss) \o Concat(Tail(ss))

(* ----------------------------- constants ------------------------------ *)

geocodeHost == "maps.googleapis.com/"
geocodePath == "maps/api/geocode/json"
StatusOK == 200
StatusCreated == 201

(* ------------------------------ errors -------------------------------- *)

\* A Go error value; nil is the record of kind "nil".
Err(kind, code) == [kind |-> kind, code |-> code]
nil == Err("nil", 0)

(* -------------------------- net/url escaping -------------------------- *)

\* Among the bytes of this model, those url.QueryEscape rewrites; letters
\* and digits are left alone.
shouldEscape(c) == c \in {" ", "+", "%", "/"}

\* The two hex digits of a byte that is escaped as %XX.
Hex(c) ==
    CASE c = "+" -> <<"2", "B">>
      [] c = "%" -> <<"2", "5">>
      [] c = "/" -> <<"2", "F">>

\* url.QueryEscape of one byte: a byte that needs no escape stays, a space
\* becomes +, every other byte becomes %XX.
EscapeByte(c) ==
    IF ~shouldEscape(c) THEN <<c>>
    ELSE IF c = " " THEN <<"+">>
    ELSE <<"%">> \o Hex(c)

QueryEscape(s) == Concat([i \in 1..Len(s) |-> EscapeByte(s[i])])

\* The decoding side of net/url, which the program does not call: the
\* geocoding server applies it to the query string it receives.
\* The byte a %XX escape stands for.
Unhex(h) ==
    CASE h = <<"2", "B">> -> "+"
      [] h = <<"2", "5">> -> "%"
      [] h = <<"2", "F">> -> "/"

\* url.QueryUnescape, the decoding a server applies to a query value.
RECURSIVE QueryUnescape(_)
QueryUnescape(s) ==
    IF s = <<>> THEN <<>>
    ELSE IF Head(s) = "+" THEN <<" ">> \o QueryUnescape(Tail(s))
    ELSE IF Head(s) = "%" THEN <<Unhex(SubSeq(s, 2, 3))>> \o QueryUnescape(SubSeq(s, 4, Len(s)))
    ELSE <<Head(s)>> \o QueryUnescape(Tail(s))

(* ----------------------------- url.Values ----------------------------- *)

\* url.Values{}: a map from parameter names to lists of values.
EmptyValues == [n \in {} |-> <<>>]

\* Values.Add: append to the list under the name.
Add(vals, name, value) ==
    [n \in DOMAIN vals \cup {name} |->
        IF n \in DOMAIN vals
        THEN IF n = name THEN Append(vals[n], value) ELSE vals[n]
        ELSE <<value>>]

\* The names this program puts into a query, in sorted order.
SortedNames == <<"address", "sensor">>

\* Values.Encode: name=QueryEscape(value) for every value, names sorted.
\* The query string is kept as its sequence of name=value pairs.
Encode(vals) ==
    Concat([i \in 1..Len(SortedNames) |->
        IF SortedNames[i] \in DOMAIN vals
        THEN [j \in 1..Len(vals[SortedNames[i]]) |->
                [name |-> SortedNames[i],
                 value |-> QueryEscape(vals[SortedNames[i]][j])]]
        ELSE <<>>])

\* url.ParseQuery: the values a server decodes from a query string.
DecodedValues(query, name) ==
    LET idx == {i \in 1..Len(query) : query[i].name = name}
        RECURSIVE Pick(_)
        Pick(i) == IF i > Len(query) THEN <<>>
                   ELSE IF i \in idx THEN <<QueryUnescape(query[i].value)>> \o Pick(i + 1)
                   ELSE Pick(i + 1)
    IN Pick(1)

sensorFalse == <<"f", "a", "l", "s", "e">>

parseGeocodingAddr(addr) ==
    Add(Add(EmptyValues, "address", QueryEscape(addr)), "sensor", sensorFalse)

\* The URL before url.Parse(u.String()) re-reads it.
buildGeocodingURL(scheme, vals) ==
    [Scheme |-> scheme, Host |-> geocodeHost, Path |-> geocodePath,
     RawQuery |-> IF Cardinality(DOMAIN vals) # 0 THEN Encode(vals) ELSE <<>>]

NilURL == [Scheme |-> "", Host |-> "", Path |-> "", RawQuery |-> <<>>]

(* --------------------------- encoding/json ---------------------------- *)

\* json.Marshal of one byte of a string: an invalid UTF-8 byte is written
\* as the escape of U+FFFD, everything else here as it is.
MarshalByte(c) == IF c = "xFF" THEN "esc_ufffd" ELSE c

\* json.Marshal(&forecastIoState{ApiKey: key}): the text {"api_key":"..."}.
Marshal(state) ==
    [form |-> "object",
     api_key |-> [i \in 1..Len(state.ApiKey) |-> MarshalByte(state.ApiKey[i])]]

\* json.Unmarshal of one token of a JSON string: an escape is decoded, an
\* invalid UTF-8 byte is replaced by U+FFFD.
UnquoteToken(t) == IF t \in {"xFF", "esc_ufffd"} THEN "uFFFD" ELSE t

Unquote(tokens) == [i \in 1..Len(tokens) |-> UnquoteToken(tokens[i])]

(* ---------------------------- state file ------------------------------ *)

NoText == [form |-> "none", api_key |-> <<>>]
\* No file at $HOME/.goforecast.
Absent == [kind |-> "absent", text |-> NoText]
\* A file os.Open refuses (permission denied).
Denied == [kind |-> "denied", text |-> NoText]
\* A path os.Open opens and ioutil.ReadAll cannot read (a directory).
IsDir == [kind |-> "isdir", text |-> NoText]
Data(text) == [kind |-> "data", text |-> text]
\* Text that is no JSON value of the expected shape: empty, cut short, ...
Garbage == [form |-> "garbage", api_key |-> <<>>]
\* The JSON text null.
Null == [form |-> "null", api_key |-> <<>>]
Object(tokens) == [form |-> "object", api_key |-> tokens]

\* *forecastIoState; the nil pointer has nil = TRUE.
NilState == [nil |-> TRUE, ApiKey |-> <<>>]
State(k) == [nil |-> FALSE, ApiKey |-> k]

os_IsNotExistAlways(err) == TRUE

os_IsNotExist(err) == err.kind = "ENOENT"

restoreState(file) ==
    IF file.kind = "absent" THEN [state |-> NilState, err |-> Err("ENOENT", 0)]
    ELSE IF file.kind = "denied" THEN [state |-> NilState, err |-> Err("EACCES", 0)]
    ELSE IF file.kind = "isdir" THEN [state |-> NilState, err |-> Err("EISDIR", 0)]
    ELSE IF file.text.form = "garbage" THEN [state |-> NilState, err |-> Err("json", 0)]
    ELSE IF file.text.form = "null" THEN [state |-> NilState, err |-> nil]
    ELSE [state |-> State(Unquote(file.text.api_key)), err |-> nil]

MissingKey == Err("could not find Forecast IO API key", 0)

\* The mutant: the environment is consulted before the state file.
getForecastIOKeyEnvFirst(file, env) ==
    IF env # <<>> THEN [key |-> env, err |-> nil, envRead |-> TRUE]
    ELSE LET r == restoreState(file) IN
         IF ~r.state.nil /\ r.state.ApiKey # <<>>
         THEN [key |-> r.state.ApiKey, err |-> nil, envRead |-> TRUE]
         ELSE [key |-> <<>>, err |-> MissingKey, envRead |-> TRUE]

\* getForecastIOKey with the file and the environment it finds; envRead
\* tells whether os.Getenv was called.
getForecastIOKey(file, env) ==
    LET r == restoreState(file) IN
    IF r.err # nil /\ ~os_IsNotExist(r.err)
    THEN [key |-> <<>>, err |-> r.err, envRead |-> FALSE]
    ELSE IF ~r.state.nil /\ r.state.ApiKey # <<>>
    THEN [key |-> r.state.ApiKey, err |-> nil, envRead |-> FALSE]
    ELSE IF env = <<>>
    THEN [key |-> <<>>, err |-> MissingKey, envRead |-> TRUE]
    ELSE [key |-> env, err |-> nil, envRead |-> TRUE]

\* What ioutil.WriteFile can do: write the file; fail to open it, which
\* leaves it alone; fail after O_TRUNC emptied it, which leaves a cut text.
WriteOutcomes == {"ok", "openfail", "writefail"}

dumpState(state, file, outcome) ==
    IF outcome = "ok" THEN [file |-> Data(Marshal(state)), err |-> nil]
    ELSE IF outcome = "openfail" THEN [file |-> file, err |-> Err("open", 0)]
    ELSE [file |-> Data(Garbage), err |-> Err("write", 0)]

\* The key a following restoreState reads from the file, <<>> when none.
StoredKey(file) ==
    LET r == restoreState(file) IN
    IF r.err = nil /\ ~r.state.nil THEN r.state.ApiKey ELSE <<>>

(* ------------------------- geocoding response ------------------------- *)

\* *location, *geometry, geocodingResult, *geocodingResponse; a nil pointer
\* has nil = TRUE.  Coordinates are in thousandths of a degree.
NilLocation == [nil |-> TRUE, Lat |-> 0, Lng |-> 0]
SomeLocation == [nil |-> FALSE, Lat |-> 37794, Lng |-> -122419]
NilGeometry == [nil |-> TRUE, Location |-> NilLocation]
Geometry(l) == [nil |-> FALSE, Location |-> l]
Result(g) == [Geometry |-> g]
NilResponse == [nil |-> TRUE, Results |-> <<>>]
Response(rs) == [nil |-> FALSE, Results |-> rs]

\* Response bodies: text that is no JSON, the JSON text null, and objects
\* whose results are empty, lack the geometry, lack the location, or hold one.
Bodies ==
    {[form |-> "garbage", Results |-> <<>>],
     [form |-> "null", Results |-> <<>>],
     [form |-> "object", Results |-> <<>>],
     [form |-> "object", Results |-> <<Result(NilGeometry)>>],
     [form |-> "object", Results |-> <<Result(Geometry(NilLocation))>>],
     [form |-> "object", Results |-> <<Result(Geometry(SomeLocation))>>]}

Statuses == {StatusOK, StatusCreated, 204, 301, 404, 500}

\* What the network can answer to the GET: the request cannot be built, the
\* transport fails, or a response arrives whose body can or cannot be read.
Replies ==
    {[net |-> n, status |-> 0, readable |-> FALSE, body |-> [form |-> "garbage", Results |-> <<>>]]
        : n \in {"NewRequest", "Do"}}
    \cup
    {[net |-> "response", status |-> s, readable |-> r, body |-> b]
        : s \in Statuses, r \in BOOLEAN, b \in Bodies}

\* The mutant: every 2xx and 3xx status passes the check.
StatusAcceptedBelow400(code) == code >= 200 /\ code < 400

\* The switch on resp.StatusCode.
StatusAccepted(code) == code = StatusOK \/ code = StatusCreated

\* json.Unmarshal(b, &geoResp): the text null sets the pointer to nil.
UnmarshalResponse(body) ==
    IF body.form = "garbage" THEN [resp |-> NilResponse, err |-> Err("json", 0)]
    ELSE IF body.form = "null" THEN [resp |-> NilResponse, err |-> nil]
    ELSE [resp |-> Response(body.Results), err |-> nil]

\* getGeocodingLocation on the reply the network gives.  decoded tells
\* whether the body reached json.Unmarshal; panic tells that
\* len(geoResp.Results) dereferenced a nil pointer.
getGeocodingLocation(reply) ==
    LET none == [resp |-> NilResponse, err |-> nil, status |-> reply.status,
                 decoded |-> FALSE, panic |-> FALSE]
    IN
    IF reply.net # "response" THEN [none EXCEPT !.err = Err(reply.net, 0)]
    ELSE IF ~StatusAccepted(reply.status)
    THEN [none EXCEPT !.err = Err("on request: got code", reply.status)]
    ELSE IF ~reply.readable THEN [none EXCEPT !.err = Err("ReadAll", 0)]
    ELSE LET d == UnmarshalResponse(reply.body) IN
         IF d.err # nil THEN [none EXCEPT !.err = d.err, !.decoded = TRUE]
         ELSE IF d.resp.nil THEN [none EXCEPT !.decoded = TRUE, !.panic = TRUE]
         ELSE IF Len(d.resp.Results) = 0
         THEN [none EXCEPT !.err = Err("no geocoding results returned", 0), !.decoded = TRUE]
         ELSE [none EXCEPT !.resp = d.resp, !.decoded = TRUE]

\* fmt.Sprintf("%.2f", x): x in thousandths, rounded to hundredths.
Sprintf2(x) == IF x >= 0 THEN (x + 5) \div 10 ELSE -((5 - x) \div 10)

\* *forecast.Forecast
NilForecast == [nil |-> TRUE]
SomeForecast == [nil |-> FALSE]

(* ------------------------------- state -------------------------------- *)

VARIABLES
    pc,          \* where the lookup Action is: args, url, geocode, loc, key, dump, fetch, render, exit
    args,        \* c.Args()
    envKey,      \* the value of FORECAST_IO_API_KEY, <<>> when unset or empty
    stateFile,   \* $HOME/.goforecast
    addr, vals, u, geoResp, loc, key, fc, err,   \* the Action's locals
    status,      \* resp.StatusCode of the geocoding response, 0 before one arrived
    decoded,     \* whether the geocoding body reached json.Unmarshal
    stderr,      \* what was written to the error stream
    stdout,      \* what was written to standard output
    exitStatus,  \* the exit status once pc = "exit"
    envReads,    \* calls of os.Getenv(forecastIoEnvKey) in this invocation
    fetchCalls,  \* calls of forecast.Get in this invocation
    stages,      \* the stages this invocation ran, each with its success
    startFile,   \* the state file as this invocation found it
    prev         \* what the invocation before this one did with the key

locals == <<addr, vals, u, geoResp, loc, key, fc, err, status, decoded>>
vars == <<pc, args, envKey, stateFile, locals, stderr, stdout, exitStatus,
          envReads, fetchCalls, stages, startFile, prev>>

Addrs == SeqsUpTo(AddrBytes, MaxAddrLen)
Argv == {<<>>} \cup {<<a>> : a \in Addrs}
Keys == SeqsUpTo(KeyBytes, MaxKeyLen)
Files ==
    {Absent, Denied, IsDir, Data(Garbage), Data(Null)}
    \cup {Data(Object(t)) : t \in SeqsUpTo(JSONTokens, MaxKeyLen)}

NoPrev == [src |-> "none", key |-> <<>>]

\* The state of a process that has just entered the lookup Action.
Fresh ==
    /\ pc = "args"
    /\ addr = <<>> /\ vals = EmptyValues /\ u = NilURL
    /\ geoResp = NilResponse /\ loc = NilLocation /\ key = <<>>
    /\ fc = NilForecast /\ err = nil /\ status = 0 /\ decoded = FALSE
    /\ stderr = <<>> /\ stdout = <<>> /\ exitStatus = 0
    /\ envReads = 0 /\ fetchCalls = <<>> /\ stages = <<>>

Init ==
    /\ Fresh
    /\ args \in Argv
    /\ envKey \in Keys
    /\ stateFile \in Files
    /\ startFile = stateFile
    /\ prev = NoPrev

Stage(name, ok) == [name |-> name, ok |-> ok]
Ran(name) == \E i \in DOMAIN stages : stages[i].name = name
Succeeded(name) == \E i \in DOMAIN stages : stages[i] = Stage(name, TRUE)

\* The mutant: printError writes the message and returns.
printErrorReturns(e) == FALSE

\* printError ends the process exactly when the error is not nil.
printErrorExits(e) == e # nil

\* printError(e) where the Action goes on at next when printError returns.
\* The line written is "Error: " followed by the message of the error (the
\* whole line is handed to Fprintf as its format; the model keeps the
\* message as the error value and does not expand format verbs in it).
printError(e, next) ==
    IF printErrorExits(e)
    THEN /\ stderr' = Append(stderr, [prefix |-> "Error: ", msg |-> e])
         /\ exitStatus' = 1
         /\ pc' = "exit"
    ELSE /\ pc' = next
         /\ UNCHANGED <<stderr, exitStatus>>

\* A nil pointer dereference: the runtime writes the panic and exits with 2.
Panic ==
    /\ stderr' = Append(stderr, [prefix |-> "panic: ", msg |-> Err("nil pointer dereference", 0)])
    /\ exitStatus' = 2
    /\ pc' = "exit"

(* ------------------------------ actions ------------------------------- *)

\* if len(c.Args()) == 0 { printError(...) }; addr := c.Args().First()
CheckArgs ==
    /\ pc = "args"
    /\ LET e == IF Len(args) = 0 THEN Err("missing address", 0) ELSE nil IN
       /\ err' = e
       /\ stages' = Append(stages, Stage("args", e = nil))
       /\ addr' = IF Len(args) = 0 THEN <<>> ELSE args[1]
       /\ printError(e, "url")
    /\ UNCHANGED <<args, envKey, stateFile, vals, u, geoResp, loc, key, fc,
                   status, decoded, stdout, envReads, fetchCalls, startFile, prev>>

\* u, err := buildGeocodingURL("http", parseGeocodingAddr(addr)).  Whether
\* url.Parse accepts the string of the URL is the library's decision.
BuildURL ==
    /\ pc = "url"
    /\ \E parsed \in BOOLEAN :
         LET e == IF parsed THEN nil ELSE Err("parse", 0) IN
         /\ vals' = parseGeocodingAddr(addr)
         /\ u' = IF parsed THEN buildGeocodingURL("http", parseGeocodingAddr(addr)) ELSE NilURL
         /\ err' = e
         /\ stages' = Append(stages, Stage("url", e = nil))
         /\ printError(e, "geocode")
    /\ UNCHANGED <<args, envKey, stateFile, addr, geoResp, loc, key, fc,
                   status, decoded, stdout, envReads, fetchCalls, startFile, prev>>

\* geoResp, err := getGeocodingLocation(http.DefaultClient, u)
GetGeocodingLocation ==
    /\ pc = "geocode"
    /\ \E reply \in Replies :
         LET r == getGeocodingLocation(reply) IN
         /\ geoResp' = r.resp
         /\ err' = r.err
         /\ status' = r.status
         /\ decoded' = r.decoded
         /\ stages' = Append(stages, Stage("geocode", r.err = nil /\ ~r.panic))
         /\ IF r.panic THEN Panic ELSE printError(r.err, "loc")
    /\ UNCHANGED <<args, envKey, stateFile, addr, vals, u, loc, key, fc,
                   stdout, envReads, fetchCalls, startFile, prev>>

\* The argument of getForecast: geoResp.Results[0].Geometry.Location.
EvalLocation ==
    /\ pc = "loc"
    /\ IF geoResp.nil \/ Len(geoResp.Results) = 0 \/ geoResp.Results[1].Geometry.nil
       THEN Panic /\ UNCHANGED loc
       ELSE /\ loc' = geoResp.Results[1].Geometry.Location
            /\ pc' = "key"
            /\ UNCHANGED <<stderr, exitStatus>>
    /\ UNCHANGED <<args, envKey, stateFile, addr, vals, u, geoResp, key, fc, err,
                   status, decoded, stdout, envReads, fetchCalls, stages, startFile, prev>>

\* getForecast: key, err := getForecastIOKey()
GetForecastIOKey ==
    /\ pc = "key"
    /\ LET r == getForecastIOKey(stateFile, envKey) IN
       /\ key' = r.key
       /\ err' = r.err
       /\ envReads' = envReads + (IF r.envRead THEN 1 ELSE 0)
       /\ stages' = Append(stages, Stage("key", r.err = nil))
       /\ printError(r.err, "dump")
    /\ UNCHANGED <<args, envKey, stateFile, addr, vals, u, geoResp, loc, fc,
                   status, decoded, stdout, fetchCalls, startFile, prev>>

\* getForecast: dumpState(&forecastIoState{ApiKey: key})
DumpState ==
    /\ pc = "dump"
    /\ \E outcome \in WriteOutcomes :
         LET r == dumpState(State(key), stateFile, outcome) IN
         /\ stateFile' = r.file
         /\ err' = r.err
         /\ stages' = Append(stages, Stage("dump", r.err = nil))
         /\ printError(r.err, "fetch")
    /\ UNCHANGED <<args, envKey, addr, vals, u, geoResp, loc, key, fc,
                   status, decoded, stdout, envReads, fetchCalls, startFile, prev>>

\* getForecast: forecast.Get(key, Sprintf(loc.Lat), Sprintf(loc.Lng), "now", US).
\* The arguments are evaluated first: a nil loc panics before the call.
ForecastGet ==
    /\ pc = "fetch"
    /\ IF loc.nil
       THEN Panic /\ UNCHANGED <<fetchCalls, fc, err, stages>>
       ELSE \E answered \in BOOLEAN :
              LET e == IF answered THEN nil ELSE Err("forecast.Get", 0) IN
              /\ fetchCalls' = Append(fetchCalls,
                    [key |-> key, lat |-> Sprintf2(loc.Lat), lng |-> Sprintf2(loc.Lng),
                     time |-> "now", units |-> "us"])
              /\ fc' = IF answered THEN SomeForecast ELSE NilForecast
              /\ err' = e
              /\ stages' = Append(stages, Stage("fetch", e = nil))
              /\ printError(e, "render")
    /\ UNCHANGED <<args, envKey, stateFile, addr, vals, u, geoResp, loc, key,
                   status, decoded, stdout, envReads, startFile, prev>>

\* renderForecast(fc, addr); the Action returns and main exits with 0.
RenderForecast ==
    /\ pc = "render"
    /\ IF fc.nil
       THEN Panic /\ UNCHANGED <<stdout, stages>>
       ELSE /\ stdout' = Append(stdout, [header |-> addr, fc |-> fc])
            /\ stages' = Append(stages, Stage("render", TRUE))
            /\ pc' = "exit"
            /\ UNCHANGED <<stderr, exitStatus>>
    /\ UNCHANGED <<args, envKey, stateFile, addr, vals, u, geoResp, loc, key, fc, err,
                   status, decoded, envReads, fetchCalls, startFile, prev>>

\* What this invocation leaves for the claims about the following one: that
\* it found no state file, took the key from the environment and fetched the
\* forecast, or that it found a key in the state file, resolved and wrote.
Summary ==
    IF startFile = Absent /\ envKey # <<>> /\ Ran("fetch")
    THEN [src |-> "env", key |-> envKey]
    ELSE IF StoredKey(startFile) # <<>> /\ Ran("dump")
    THEN [src |-> "file", key |-> StoredKey(startFile)]
    ELSE NoPrev

\* The process has exited; the user runs the command again.
NextInvocation ==
    /\ pc = "exit"
    /\ prev' = Summary
    /\ pc' = "args"
    /\ addr' = <<>> /\ vals' = EmptyValues /\ u' = NilURL
    /\ geoResp' = NilResponse /\ loc' = NilLocation /\ key' = <<>>
    /\ fc' = NilForecast /\ err' = nil /\ status' = 0 /\ decoded' = FALSE
    /\ stderr' = <<>> /\ stdout' = <<>> /\ exitStatus' = 0
    /\ envReads' = 0 /\ fetchCalls' = <<>> /\ stages' = <<>>
    /\ args' \in Argv
    /\ envKey' \in Keys
    /\ startFile' = stateFile
    /\ UNCHANGED stateFile

Next ==
    \/ CheckArgs
    \/ BuildURL
    \/ GetGeocodingLocation
    \/ EvalLocation
    \/ GetForecastIOKey
    \/ DumpState
    \/ ForecastGet
    \/ RenderForecast
    \/ NextInvocation

Spec == Init /\ [][Next]_vars

(* ------------------------------- claims ------------------------------- *)

StageOrder == <<"args", "url", "geocode", "key", "dump", "fetch", "render">>

\* C1: the stages of a lookup run in the order argument check, URL build,
\* geocoding request, key resolution, state write, forecast fetch, render;
\* no stage runs after a stage that failed; the Renderer has run, and
\* standard output has been written, only when every other stage succeeded.
C1_StagesInOrder ==
    /\ Len(stages) <= Len(StageOrder)
    /\ \A i \in DOMAIN stages : stages[i].name = StageOrder[i]
    /\ \A i \in DOMAIN stages : i < Len(stages) => stages[i].ok
    /\ (Ran("render") \/ stdout # <<>>) =>
          \A i \in DOMAIN StageOrder : Succeeded(StageOrder[i])

\* C1 witness: a lookup that ran all seven stages and rendered the forecast.
C1_Witness ==
    pc = "exit" /\ Len(stages) = Len(StageOrder) /\ stdout # <<>> /\ exitStatus = 0

\* C2: a lookup that has ended either rendered the forecast and exited with
\* status 0, or wrote its error to the error stream behind the prefix
\* "Error: " and exited with status 1.
C2_ExitsCleanly ==
    pc = "exit" =>
        \/ exitStatus = 0 /\ Ran("render") /\ stderr = <<>>
        \/ /\ exitStatus = 1
           /\ err # nil
           /\ stderr = <<[prefix |-> "Error: ", msg |-> err]>>

\* C3: a geocoding response counts as a success only when its first result
\* has a geometry and a location, so key resolution and the forecast stage
\* are reached only with a location that is not nil; empty results end the
\* lookup with the reported error; no lookup ends in a nil dereference after
\* the geocoding stage succeeded.
C3_NoNilLocation ==
    /\ Succeeded("geocode") =>
          /\ ~geoResp.nil
          /\ Len(geoResp.Results) > 0
          /\ ~geoResp.Results[1].Geometry.nil
          /\ ~geoResp.Results[1].Geometry.Location.nil
    /\ Ran("key") => ~loc.nil
    /\ err = Err("no geocoding results returned", 0) =>
          pc = "exit" /\ exitStatus = 1 /\ ~Ran("key")
    /\ (pc = "exit" /\ Succeeded("geocode")) => exitStatus # 2

\* C4: when the state file the invocation finds holds a key that is not
\* empty, os.Getenv is never called in the invocation and key resolution
\* succeeds with exactly the key the file holds, whatever the environment.
C4_StoredKeyWins ==
    StoredKey(startFile) # <<>> =>
        /\ envReads = 0
        /\ Ran("key") => Succeeded("key") /\ key = StoredKey(startFile)

\* C4 witness: key resolution has run with a key in the state file and a
\* different key in the environment.
C4_Witness ==
    /\ Ran("key")
    /\ StoredKey(startFile) # <<>>
    /\ envKey # <<>>
    /\ envKey # StoredKey(startFile)

\* C5: with no state file and the environment variable set to k, key
\* resolution succeeds with k; when the forecast is fetched the state file
\* exists and its key is k; the following invocation, with the variable
\* unset, resolves k.
C5_EnvKeyPersisted ==
    /\ (startFile = Absent /\ envKey # <<>> /\ Ran("key")) =>
          Succeeded("key") /\ key = envKey
    /\ (startFile = Absent /\ envKey # <<>> /\ Ran("fetch")) =>
          stateFile.kind = "data" /\ StoredKey(stateFile) = envKey
    /\ (prev.src = "env" /\ envKey = <<>> /\ Ran("key")) =>
          Succeeded("key") /\ key = prev.key

\* C6: after a geocoding response with a status other than 200 and 201 the
\* error carries that status, no response is returned and the body was not
\* decoded; after 200 or 201 the body was read: it was decoded, or reading
\* it is what failed.
C6_StatusCheck ==
    status # 0 =>
        IF status \notin {StatusOK, StatusCreated}
        THEN /\ err = Err("on request: got code", status)
             /\ geoResp.nil
             /\ ~decoded
             /\ ~Succeeded("geocode")
        ELSE decoded \/ err = Err("ReadAll", 0)

\* C6 witness: a redirect status came back and the lookup ended on it.
C6_Witness ==
    status = 301 /\ pc = "exit" /\ err = Err("on request: got code", 301)

\* C7: parseGeocodingAddr(addr) maps address to the one-element list of
\* addr itself, and the address a server decodes from the query string of
\* the URL is addr.
C7_AddressUnchanged ==
    Ran("url") =>
        /\ "address" \in DOMAIN vals
        /\ vals["address"] = <<addr>>
        /\ u # NilURL => DecodedValues(u.RawQuery, "address") = <<addr>>

\* C8: forecast.Get is called only after the state write of the same
\* invocation succeeded; a failed state write ends the lookup with that
\* error and without a call; at every call the key in the state file equals
\* the key passed.
C8_FetchAfterWrite ==
    /\ fetchCalls # <<>> => Succeeded("dump")
    /\ (Ran("dump") /\ ~Succeeded("dump")) =>
          /\ pc = "exit" /\ exitStatus = 1
          /\ err.kind \in {"open", "write"}
          /\ fetchCalls = <<>>
    /\ \A i \in DOMAIN fetchCalls : StoredKey(stateFile) = fetchCalls[i].key

\* C9: when no state file exists key resolution reads the environment
\* variable and its result is the variable's: the key, or the missing-key
\* error.  When the file cannot be opened, read or parsed, key resolution
\* fails with that error whatever the environment holds, the lookup ends
\* with status 1, the state file is left as it was and forecast.Get is
\* not called.
C9_ReadFailure ==
    Ran("key") =>
        /\ startFile = Absent =>
              /\ envReads = 1
              /\ envKey # <<>> => Succeeded("key") /\ key = envKey
              /\ envKey = <<>> => ~Succeeded("key") /\ err = MissingKey
        /\ startFile \in {Denied, IsDir, Data(Garbage)} =>
              /\ ~Succeeded("key")
              /\ err = restoreState(startFile).err
              /\ pc = "exit" /\ exitStatus = 1
              /\ stateFile = startFile
              /\ ~Ran("dump")
              /\ fetchCalls = <<>>

\* C9 witness: the state file holds text that is no JSON, the environment
\* holds a key, and the lookup has ended in key resolution.
C9_Witness ==
    /\ startFile = Data(Garbage)
    /\ envKey # <<>>
    /\ Ran("key")
    /\ pc = "exit"

\* C10: from a state file that holds a key k that is not empty, key
\* resolution yields k and after the state write the file still holds k;
\* the invocation that follows finds k in the file and does the same.
C10_Idempotent ==
    /\ StoredKey(startFile) # <<>> =>
          /\ Ran("key") => Succeeded("key") /\ key = StoredKey(startFile)
          /\ Ran("dump") => StoredKey(stateFile) = StoredKey(startFile)
    /\ prev.src = "file" => StoredKey(startFile) = prev.key

(* -------------------- what holds next to C5, C8, C10 ------------------ *)

ValidUTF8(k) == \A i \in DOMAIN k : k[i] # "xFF"

\* After a state write that succeeded, the file holds the resolved key when
\* that key is valid UTF-8.
ValidKeyIsPersisted ==
    (Succeeded("dump") /\ ValidUTF8(key)) => StoredKey(stateFile) = key

\* A state write that succeeded over a file that held a key leaves that key.
RewriteKeepsStoredKey ==
    (StoredKey(startFile) # <<>> /\ Succeeded("dump")) =>
        StoredKey(stateFile) = StoredKey(startFile)

====
